---- MODULE Spec2Model ----
(***************************************************************************)
(* OpenProcessing views tracker: the browser extension (popup.js captures  *)
(* snapshots into chrome.storage.local, options.js derives the series and  *)
(* resets the store) and the Node collector (fetchViews.js, data file).    *)
(*                                                                         *)
(* Conventions.  JavaScript arrays are sequences, so indices are 1-based   *)
(* and "not found" (-1 in the source) is 0.  A JavaScript value whose type *)
(* matters is a record tagged by its field t.  A timestamp string is a     *)
(* record tagged by kind: "ts" (wall-clock time plus UTC offset, as        *)
(* nowAmsterdamTimestamp prints it), "date" (a calendar day, as todayUTC   *)
(* prints it).  Time is counted in abstract ticks.                         *)
(***************************************************************************)
EXTENDS Integers, Sequences, FiniteSets, TLC

VARIABLES
  storage,        \* chrome.storage.local: storage key -> stored value
  captureButton,  \* popup: [disabled]
  graphButton,    \* popup: [disabled]
  statusEl,       \* popup: [textContent, isError]
  previewEl,      \* popup: the snapshot shown in the preview pane, or Empty
  storedEl,       \* popup: [count, latest] of "Stored snapshots: ..."
  badge,          \* chrome.action badge text of the captured tab
  captures,       \* popup: the invocations of captureCurrentPage
  optionsPage,    \* options: [pc, downloadButton, clearButton]
  state,          \* options: the module-level state object
  dataFile,       \* Node: data/views.json, NoFile or the JSON text
  callArg,        \* argument of the load/save primitive under test
  callRet,        \* value returned by the load primitive under test
  node,           \* Node: the run of fetchViews.js, its locals and position
  clock,          \* Node: the instant new Date() reads
  erased          \* history variable: snapshots a reset erased

vars == <<storage, captureButton, graphButton, statusEl, previewEl, storedEl,
          badge, captures, optionsPage, state, dataFile, callArg, callRet,
          node, clock, erased>>

popupVars == <<captureButton, graphButton, statusEl, previewEl, storedEl,
               badge, captures>>
optionsVars == <<optionsPage, state>>
nodeVars == <<node, clock>>
harnessVars == <<dataFile, callArg, callRet, nodeVars>>

----------------------------------------------------------------------------
(* Bounds *)

MaxTime == 1     \* the clock reads an instant in 0..MaxTime
MaxTasks == 2    \* invocations of captureCurrentPage the model can hold

Times == 0..MaxTime
Tasks == 1..MaxTasks

----------------------------------------------------------------------------
(* Values *)

Undefined == [t |-> "undefined"]
Empty == [t |-> "empty"]
Null == [t |-> "null"]
TypeError == [t |-> "TypeError"]
Array(items) == [t |-> "array", items |-> items]
IsArray(value) == value.t = "array"

Range(seq) == {seq[i] : i \in DOMAIN seq}
Min(S) == CHOOSE m \in S : \A n \in S : m <= n

popup_STORAGE_KEY == "openprocessingViewHistory"
options_STORAGE_KEY == "openprocessingViewHistory"
StorageKeys == {popup_STORAGE_KEY, options_STORAGE_KEY}

----------------------------------------------------------------------------
(* Clock and timestamps (popup.js) *)

DayLen == 2      \* ticks in one UTC calendar day
DstEnd == 1      \* first instant of winter time in Europe/Amsterdam

\* UTC offset of Europe/Amsterdam at an instant: +2 in summer, +1 in winter.
amsterdamOffset(now) == IF now < DstEnd THEN 2 ELSE 1

todayUTC(now) == [kind |-> "date", day |-> now \div DayLen]

nowAmsterdamTimestamp(now) ==
  [kind |-> "ts", wall |-> now + amsterdamOffset(now), off |-> amsterdamOffset(now)]

\* Date.parse: the instant a timestamp string denotes; NaN when unparsable.
IsParsable(str) == str.kind \in {"ts", "date"}
DateParse(str) ==
  IF str.kind = "ts" THEN str.wall - str.off ELSE str.day * DayLen

\* left?.fetched_at || left?.date || ""
effectiveTimestamp(snapshot) ==
  IF "fetched_at" \in DOMAIN snapshot THEN snapshot.fetched_at
  ELSE IF "date" \in DOMAIN snapshot THEN snapshot.date
  ELSE [kind |-> "text"]

----------------------------------------------------------------------------
(* Collector results (scrapeOpenProcessingPage, run in the active tab) *)

Sketch(id, title, views) ==
  [id |-> id, title |-> title, views |-> views,
   url |-> [site |-> "openprocessing.org", sketch |-> id]]

\* The sketch lists the scraper returns: deduplicated by id, sorted
\* descending by views.
SketchLists ==
  { <<Sketch(1, "a", 1)>>,
    <<Sketch(2, "b", 2), Sketch(1, "a", 1)>> }

\* result?.result of chrome.scripting.executeScript
Payloads ==
  {Undefined, [t |-> "object", sketches |-> Undefined], [t |-> "object", sketches |-> Array(<<>>)]}
  \cup {[t |-> "object", sketches |-> Array(l)] : l \in SketchLists}

\* [tab] of chrome.tabs.query
OpenProcessingTab == [t |-> "tab", id |-> 7, url |-> "https://openprocessing.org/user/78298"]
Tabs == {Undefined, [t |-> "tab", id |-> 8, url |-> "https://example.org/"], OpenProcessingTab}

----------------------------------------------------------------------------
(* History store (popup.js) *)

\* chrome.storage.local.get(key) followed by result?.[key]
storageGet(key) == storage[key]

\* chrome.storage.local.set({[key]: value})
storageSet(key, value) == [storage EXCEPT ![key] = value]

loadSnapshotHistory ==
  LET value == storageGet(popup_STORAGE_KEY)
  IN  IF IsArray(value) THEN value.items ELSE <<>>

saveSnapshotHistory(history) == storageSet(popup_STORAGE_KEY, Array(history))

\* history.findIndex((entry) => entry?.fetched_at === snapshot.fetched_at)
duplicateIndex(history, snapshot) ==
  LET matches == {i \in DOMAIN history :
                    /\ "fetched_at" \in DOMAIN history[i]
                    /\ history[i].fetched_at = snapshot.fetched_at}
  IN  IF matches = {} THEN 0 ELSE Min(matches)

\* The comparator of history.sort; a NaN result counts as 0.
compareSnapshots(left, right) ==
  LET l == effectiveTimestamp(left)
      r == effectiveTimestamp(right)
  IN  IF IsParsable(l) /\ IsParsable(r) THEN DateParse(l) - DateParse(r) ELSE 0

\* Array.prototype.sort as the extension's engine (V8) runs it on an array
\* of fewer than 64 elements: the leading run is found (and reversed when
\* strictly descending), then every later element is placed by binary
\* search.  With a consistent comparator this is any stable sort; with an
\* inconsistent one (NaN results) it is what the engine happens to do.
countRun(a) ==
  IF Len(a) < 2 THEN Len(a)
  ELSE LET descending == compareSnapshots(a[2], a[1]) < 0
           continues(i) == IF descending THEN compareSnapshots(a[i], a[i - 1]) < 0
                           ELSE compareSnapshots(a[i], a[i - 1]) >= 0
       IN  Min({r \in 2..Len(a) : r = Len(a) \/ ~continues(r + 1)})

reverse(a) == [i \in DOMAIN a |-> a[Len(a) + 1 - i]]

makeRun(a) ==
  IF Len(a) >= 2 /\ compareSnapshots(a[2], a[1]) < 0
  THEN reverse(SubSeq(a, 1, countRun(a))) \o SubSeq(a, countRun(a) + 1, Len(a))
  ELSE a

RECURSIVE binarySearch(_, _, _, _)
\* The number of elements of a the pivot goes behind; left and right bound
\* the search as offsets from the start of a.
binarySearch(a, pivot, left, right) ==
  IF left >= right THEN left
  ELSE LET mid == left + (right - left) \div 2
       IN  IF compareSnapshots(pivot, a[mid + 1]) < 0
           THEN binarySearch(a, pivot, left, mid)
           ELSE binarySearch(a, pivot, mid + 1, right)

RECURSIVE binaryInsertionSort(_, _)
\* The first start elements of a are in place; the others are inserted.
binaryInsertionSort(a, start) ==
  IF start >= Len(a) THEN a
  ELSE LET pivot == a[start + 1]
           left == binarySearch(a, pivot, 0, start)
       IN  binaryInsertionSort(
             SubSeq(a, 1, left) \o <<pivot>> \o SubSeq(a, left + 1, start)
               \o SubSeq(a, start + 2, Len(a)),
             start + 1)

sortHistory(history) == binaryInsertionSort(makeRun(history), countRun(history))

appendSnapshot_NoSort(history, snapshot) ==
  LET d == duplicateIndex(history, snapshot)
  IN  IF d >= 1 THEN [history EXCEPT ![d] = snapshot]
      ELSE Append(history, snapshot)

appendSnapshot_AlwaysPush(history, snapshot) ==
  sortHistory(Append(history, snapshot))

appendSnapshot_ReplaceAppends(history, snapshot) ==
  LET d == duplicateIndex(history, snapshot)
  IN  IF d >= 1
      THEN SubSeq(history, 1, d - 1) \o SubSeq(history, d + 1, Len(history)) \o <<snapshot>>
      ELSE sortHistory(Append(history, snapshot))

appendSnapshot_ByDate(history, snapshot) ==
  LET matches == {i \in DOMAIN history : history[i].date = snapshot.date}
  IN  IF matches # {} THEN [history EXCEPT ![Min(matches)] = snapshot]
      ELSE sortHistory(Append(history, snapshot))

\* appendSnapshot mutates history in place; the model returns the new value.
appendSnapshot(history, snapshot) ==
  LET d == duplicateIndex(history, snapshot)
  IN  IF d >= 1 THEN [history EXCEPT ![d] = snapshot]
      ELSE sortHistory(Append(history, snapshot))

----------------------------------------------------------------------------
(* Popup presentation helpers (popup.js) *)

RECURSIVE sumViews(_)
sumViews(sketches) ==
  IF sketches = <<>> THEN 0
  ELSE sumViews(SubSeq(sketches, 1, Len(sketches) - 1)) + sketches[Len(sketches)].views

roundDiv_Floor(n, d) == n \div d

\* Math.round of a non-negative quotient
roundDiv(n, d) == (2 * n + d) \div (2 * d)

formatBadgeNumber(number) ==
  IF number <= 0 THEN [digits |-> 0, suffix |-> ""]
  ELSE IF number >= 1000000 THEN [digits |-> roundDiv(number, 1000000), suffix |-> "M"]
  ELSE IF number >= 1000 THEN [digits |-> roundDiv(number, 1000), suffix |-> "K"]
  ELSE [digits |-> number, suffix |-> ""]

Status(message, isError) == [textContent |-> message, isError |-> isError]

IdleTask == [pc |-> "idle"]

----------------------------------------------------------------------------
(* Series builder (options.js) *)

loadHistory_AlwaysEmpty == <<>>

loadHistory ==
  LET history == storageGet(options_STORAGE_KEY)
  IN  IF IsArray(history) THEN history.items ELSE <<>>

\* Date.parse(snapshot?.fetched_at || snapshot?.date || ""), NaN read as 0
snapshotTime(snapshot) ==
  LET ts == effectiveTimestamp(snapshot)
  IN  IF IsParsable(ts) THEN DateParse(ts) ELSE 0

snapshotLabel_ByDate(snapshot, position) == snapshot.date

snapshotLabel_DateFirst(snapshot, position) ==
  IF "date" \in DOMAIN snapshot THEN snapshot.date
  ELSE IF "fetched_at" \in DOMAIN snapshot THEN snapshot.fetched_at
  ELSE [kind |-> "synthetic", n |-> position]

\* snapshot?.fetched_at || snapshot?.date || `snapshot-${index + 1}`;
\* position is the 1-based position, that is index + 1.
snapshotLabel(snapshot, position) ==
  IF "fetched_at" \in DOMAIN snapshot THEN snapshot.fetched_at
  ELSE IF "date" \in DOMAIN snapshot THEN snapshot.date
  ELSE [kind |-> "synthetic", n |-> position]

insertByTime(sorted, x) ==
  LET k == Cardinality({i \in DOMAIN sorted : snapshotTime(sorted[i]) - snapshotTime(x) <= 0})
  IN  SubSeq(sorted, 1, k) \o <<x>> \o SubSeq(sorted, k + 1, Len(sorted))

RECURSIVE normalizeHistory(_)
\* [...history].sort((a, b) => snapshotTime(a) - snapshotTime(b))
normalizeHistory(history) ==
  IF history = <<>> THEN <<>>
  ELSE insertByTime(normalizeHistory(SubSeq(history, 1, Len(history) - 1)), history[Len(history)])

sketchesOf(snapshot) ==
  IF "sketches" \in DOMAIN snapshot THEN snapshot.sketches ELSE <<>>

RECURSIVE observations(_, _)
\* The (label, sketch) pairs in the order the nested loops of buildState
\* visit them, from snapshot number position on.
observations(history, position) ==
  IF position > Len(history) THEN <<>>
  ELSE LET sketches == sketchesOf(history[position])
           label == snapshotLabel(history[position], position)
       IN  [j \in 1..Len(sketches) |-> [label |-> label, sketch |-> sketches[j]]]
             \o observations(history, position + 1)

RECURSIVE ascending(_)
\* The members of a set of numbers as an increasing sequence.
ascending(S) ==
  IF S = {} THEN <<>> ELSE <<Min(S)>> \o ascending(S \ {Min(S)})

Max(S) == CHOOSE m \in S : \A n \in S : m >= n

insertByLatestViews_BeforeEqual(sorted, x) ==
  LET k == Cardinality({i \in DOMAIN sorted : x.latestViews - sorted[i].latestViews < 0})
  IN  SubSeq(sorted, 1, k) \o <<x>> \o SubSeq(sorted, k + 1, Len(sorted))

insertByLatestViews(sorted, x) ==
  LET k == Cardinality({i \in DOMAIN sorted : x.latestViews - sorted[i].latestViews <= 0})
  IN  SubSeq(sorted, 1, k) \o <<x>> \o SubSeq(sorted, k + 1, Len(sorted))

RECURSIVE sortSeries(_)
\* .sort((a, b) => b.latestViews - a.latestViews)
sortSeries(series) ==
  IF series = <<>> THEN <<>>
  ELSE insertByLatestViews(sortSeries(SubSeq(series, 1, Len(series) - 1)), series[Len(series)])

AllOption == [value |-> "all"]
IdOption(id) == [value |-> "id", id |-> id]

populateFilterOptions_KeepsPrevious(series, previousValue) == previousValue

\* The selection populateFilterOptions leaves in state.selectedSketchId.
populateFilterOptions(series, previousValue) ==
  LET options == {AllOption} \cup {IdOption(series[i].id) : i \in DOMAIN series}
  IN  IF previousValue \in options THEN previousValue ELSE AllOption

hasViews_Always(item) == TRUE

\* .filter((item) => item.points.some((point) => point.views > 0))
hasViews(item) == \E i \in DOMAIN item.points : item.points[i].views > 0

\* snapshot.fetched_at || snapshot.date, then || new Date(0).toISOString()
snapshotDate(snapshot) ==
  IF "fetched_at" \in DOMAIN snapshot THEN snapshot.fetched_at
  ELSE IF "date" \in DOMAIN snapshot THEN snapshot.date
  ELSE [kind |-> "ts", wall |-> 0, off |-> 0]

\* String(sketch?.title || `Sketch ${sketchId}`)
seriesTitle(sketch) ==
  IF sketch.title = "" THEN "Sketch " \o ToString(sketch.id) ELSE sketch.title

buildSeries(normalizedHistory, timeLabels) ==
  LET obs == observations(normalizedHistory, 1)
      firsts == ascending({k \in DOMAIN obs :
                            \A j \in 1..(k - 1) : obs[j].sketch.id # obs[k].sketch.id})
      viewsAt(id, label) ==
        LET m == {k \in DOMAIN obs : obs[k].label = label /\ obs[k].sketch.id = id}
        IN  IF m = {} THEN 0 ELSE obs[Max(m)].sketch.views
      dateOf(label) ==
        LET m == {i \in DOMAIN timeLabels : timeLabels[i] = label}
        IN  snapshotDate(normalizedHistory[Max(m)])
      line(k) ==
        LET id == obs[k].sketch.id
            points == [i \in DOMAIN timeLabels |->
                        [timeLabel |-> timeLabels[i],
                         date |-> dateOf(timeLabels[i]),
                         views |-> viewsAt(id, timeLabels[i])]]
        IN  [id |-> id,
             title |-> seriesTitle(obs[k].sketch),
             url |-> obs[k].sketch.url,
             points |-> points,
             latestViews |-> IF points = <<>> THEN 0 ELSE points[Len(points)].views]
      all == [n \in DOMAIN firsts |-> line(firsts[n])]
      kept == SelectSeq(all, hasViews)
  IN  sortSeries(kept)

\* The state object buildState leaves behind; previous is the state before.
buildState(history, previous) ==
  LET normalizedHistory == normalizeHistory(history)
      timeLabels == [i \in DOMAIN normalizedHistory |-> snapshotLabel(normalizedHistory[i], i)]
      series == buildSeries(normalizedHistory, timeLabels)
  IN  [normalizedHistory |-> normalizedHistory,
       series |-> series,
       timeLabels |-> timeLabels,
       selectedSketchId |-> populateFilterOptions(series, previous.selectedSketchId)]

\* buildState reads snapshot.sketches of every element without ?. : on a
\* null element the read raises a TypeError.
buildStateThrows(history) == \E i \in DOMAIN history : history[i] = Null

\* The state object a buildState that raised leaves behind: the two
\* assignments before the loop are done, the others are not.
buildStateInterrupted(history, previous) ==
  LET normalizedHistory == normalizeHistory(history)
  IN  [previous EXCEPT
         !.normalizedHistory = normalizedHistory,
         !.timeLabels = [i \in DOMAIN normalizedHistory |->
                           snapshotLabel(normalizedHistory[i], i)]]

----------------------------------------------------------------------------
(* Initial state: the extension freshly installed, the popup open, the     *)
(* options page not yet open, no data file.                                *)

InitialState ==
  [normalizedHistory |-> <<>>, series |-> <<>>, timeLabels |-> <<>>,
   selectedSketchId |-> AllOption]

NoFile == [t |-> "no file"]

\* No run of the Node collector has started.
NoRun ==
  [pc |-> "idle", env |-> Empty, date |-> Empty, offset |-> 0, sketches |-> <<>>,
   request |-> Empty, response |-> Empty, error |-> Empty, existingIndex |-> 0]

InitPages ==
  /\ captureButton = [disabled |-> FALSE]
  /\ graphButton = [disabled |-> FALSE]
  /\ statusEl = Status("", FALSE)
  /\ previewEl = Empty
  /\ storedEl = [count |-> 0]
  /\ badge = Empty
  /\ captures = [t \in Tasks |-> IdleTask]
  /\ optionsPage = [pc |-> "closed", downloadButton |-> [disabled |-> FALSE],
                    clearButton |-> [disabled |-> FALSE]]
  /\ state = InitialState
  /\ node = NoRun
  /\ clock = 0

Init ==
  /\ InitPages
  /\ storage = [key \in StorageKeys |-> Undefined]
  /\ dataFile = NoFile
  /\ callArg = Empty
  /\ callRet = Empty
  /\ erased = {}

----------------------------------------------------------------------------
(* Popup: captureCurrentPage, one action per stretch between two awaits *)

\* catch (error) { setStatus(..., true) } finally { enable both buttons }
captureFailed(t, message) ==
  /\ statusEl' = Status(message, TRUE)
  /\ captureButton' = [disabled |-> FALSE]
  /\ graphButton' = [disabled |-> FALSE]
  /\ captures' = [captures EXCEPT ![t] = IdleTask]
  /\ UNCHANGED <<harnessVars, optionsVars, storage, previewEl, storedEl, badge>>

captureCurrentPage_NoDisable(t) ==
  /\ ~captureButton.disabled
  /\ captures[t].pc = "idle"
  /\ \A u \in Tasks : u < t => captures[u].pc # "idle"
  /\ statusEl' = Status("Scraping page...", FALSE)
  /\ previewEl' = Empty
  /\ captures' = [captures EXCEPT ![t] = [pc |-> "query"]]
  /\ UNCHANGED <<harnessVars, optionsVars, captureButton, graphButton, storage, storedEl, badge>>

\* The click on the capture button, up to await chrome.tabs.query.  The
\* browser delivers no click to a disabled button.  The invocation takes
\* the first free slot of captures.
captureCurrentPage(t) ==
  /\ ~captureButton.disabled
  /\ captures[t].pc = "idle"
  /\ \A u \in Tasks : u < t => captures[u].pc # "idle"
  /\ captureButton' = [disabled |-> TRUE]
  /\ graphButton' = [disabled |-> TRUE]
  /\ statusEl' = Status("Scraping page...", FALSE)
  /\ previewEl' = Empty
  /\ captures' = [captures EXCEPT ![t] = [pc |-> "query"]]
  /\ UNCHANGED <<harnessVars, optionsVars, storage, storedEl, badge>>

\* chrome.tabs.query resolved, up to await chrome.scripting.executeScript
tabQueried(t) ==
  /\ captures[t].pc = "query"
  /\ \E tab \in Tabs :
       IF tab = Undefined
       THEN captureFailed(t, "No active tab found.")
       ELSE IF tab.url # OpenProcessingTab.url
       THEN captureFailed(t, "Open an openprocessing.org page first.")
       ELSE /\ captures' = [captures EXCEPT ![t] = [pc |-> "scrape", tab |-> tab]]
            /\ UNCHANGED <<harnessVars, optionsVars, storage, captureButton, graphButton, statusEl,
                           previewEl, storedEl, badge>>

\* The injected function runs in the tab and its result travels back to
\* the popup as the result of chrome.scripting.executeScript.
scrapeOpenProcessingPage(t) ==
  /\ captures[t].pc = "scrape"
  /\ \E payload \in Payloads :
       captures' = [captures EXCEPT ![t] =
         [pc |-> "scraped", tab |-> captures[t].tab, result |-> payload]]
  /\ UNCHANGED <<harnessVars, optionsVars, storage, captureButton, graphButton, statusEl,
                 previewEl, storedEl, badge>>

pageScraped_MergesAnything(t) ==
  /\ captures[t].pc = "scraped"
  /\ \E now \in Times :
       LET payload == captures[t].result
           sketches == IF payload = Undefined \/ ~IsArray(payload.sketches)
                       THEN <<>> ELSE payload.sketches.items
       IN
       /\ captures' = [captures EXCEPT ![t] =
            [pc |-> "load", tab |-> captures[t].tab,
             snapshot |-> [date |-> todayUTC(now),
                           fetched_at |-> nowAmsterdamTimestamp(now),
                           page_url |-> captures[t].tab.url,
                           sketches |-> sketches]]]
       /\ UNCHANGED <<harnessVars, optionsVars, storage, captureButton, graphButton, statusEl,
                      previewEl, storedEl, badge>>

\* executeScript resolved: the payload is checked, the snapshot is built
\* from the clock (todayUTC and nowAmsterdamTimestamp read it back to back,
\* at one instant), up to await loadSnapshotHistory().
pageScraped(t) ==
  /\ captures[t].pc = "scraped"
  /\ \E now \in Times :
       LET payload == captures[t].result
       IN
       IF payload = Undefined \/ ~IsArray(payload.sketches)
       THEN captureFailed(t, "Unexpected scrape result.")
       ELSE IF Len(payload.sketches.items) = 0
       THEN captureFailed(t, "No sketches found on this page.")
       ELSE /\ captures' = [captures EXCEPT ![t] =
                 [pc |-> "load", tab |-> captures[t].tab,
                  snapshot |-> [date |-> todayUTC(now),
                                fetched_at |-> nowAmsterdamTimestamp(now),
                                page_url |-> captures[t].tab.url,
                                sketches |-> payload.sketches.items]]]
            /\ UNCHANGED <<harnessVars, optionsVars, storage, captureButton, graphButton, statusEl,
                           previewEl, storedEl, badge>>

\* loadSnapshotHistory resolved; appendSnapshot runs; up to
\* await saveSnapshotHistory(history).
historyLoaded(t) ==
  /\ captures[t].pc = "load"
  /\ captures' = [captures EXCEPT ![t] =
       [pc |-> "save", tab |-> captures[t].tab, snapshot |-> captures[t].snapshot,
        history |-> appendSnapshot(loadSnapshotHistory, captures[t].snapshot)]]
  /\ UNCHANGED <<harnessVars, optionsVars, storage, captureButton, graphButton, statusEl, previewEl,
                 storedEl, badge>>

\* chrome.storage.local.set settled: the write happened, or it was rejected
\* (quota exceeded); up to await refreshStoredCount().
historySaved(t) ==
  /\ captures[t].pc = "save"
  /\ \E written \in BOOLEAN :
       IF written
       THEN /\ storage' = saveSnapshotHistory(captures[t].history)
            /\ captures' = [captures EXCEPT ![t].pc = "refresh"]
            /\ UNCHANGED <<harnessVars, optionsVars, captureButton, graphButton, statusEl, previewEl,
                           storedEl, badge>>
       ELSE captureFailed(t, "QUOTA_BYTES quota exceeded")

\* refreshStoredCount: the history is loaded again and the stored count
\* is redrawn; up to await updateBadgeForTab().
storedCountRefreshed(t) ==
  /\ captures[t].pc = "refresh"
  /\ LET history == loadSnapshotHistory
     IN  storedEl' = IF history = <<>> THEN [count |-> 0]
                     ELSE [count |-> Len(history),
                           latest |-> effectiveTimestamp(history[Len(history)])]
  /\ captures' = [captures EXCEPT ![t].pc = "badge"]
  /\ UNCHANGED <<harnessVars, optionsVars, storage, captureButton, graphButton, statusEl, previewEl, badge>>

\* updateBadgeForTab resolved; the success status and the preview are
\* drawn and the finally block enables the buttons.
badgeUpdated(t) ==
  /\ captures[t].pc = "badge"
  /\ badge' = formatBadgeNumber(sumViews(captures[t].snapshot.sketches))
  /\ statusEl' = [textContent |-> "Captured", isError |-> FALSE,
                  sketches |-> Len(captures[t].snapshot.sketches),
                  snapshots |-> Len(captures[t].history)]
  /\ previewEl' = captures[t].snapshot
  /\ captureButton' = [disabled |-> FALSE]
  /\ graphButton' = [disabled |-> FALSE]
  /\ captures' = [captures EXCEPT ![t] = IdleTask]
  /\ UNCHANGED <<harnessVars, optionsVars, storage, storedEl>>

\* graphButton click: chrome.runtime.openOptionsPage() opens the options
\* page, or focuses it when it is open already.
openOptionsPage ==
  /\ ~graphButton.disabled
  /\ optionsPage.pc = "closed"
  /\ optionsPage' = [optionsPage EXCEPT !.pc = "init"]
  /\ UNCHANGED <<harnessVars, storage, state, popupVars>>

----------------------------------------------------------------------------
(* Options page (options.js) *)

\* init(): loadHistory resolved, buildState, the handlers are bound, render
init ==
  /\ optionsPage.pc = "init"
  /\ IF buildStateThrows(loadHistory)
     THEN /\ state' = buildStateInterrupted(loadHistory, state)
          /\ optionsPage' = [optionsPage EXCEPT !.pc = "failed"]
     ELSE /\ state' = buildState(loadHistory, state)
          /\ optionsPage' = [optionsPage EXCEPT !.pc = "ready"]
  /\ UNCHANGED <<harnessVars, storage, popupVars>>

\* change event of the sketch filter: the user picks one of its options
filterChanged ==
  /\ optionsPage.pc = "ready"
  /\ \E option \in {AllOption} \cup {IdOption(state.series[i].id) : i \in DOMAIN state.series} :
       state' = [state EXCEPT !.selectedSketchId = option]
  /\ UNCHANGED <<harnessVars, storage, optionsPage, popupVars>>

\* downloadStoredHistory: the click, up to await loadHistory()
downloadStoredHistory ==
  /\ optionsPage.pc = "ready"
  /\ ~optionsPage.downloadButton.disabled
  /\ optionsPage' = [pc |-> "download", downloadButton |-> [disabled |-> TRUE],
                     clearButton |-> [disabled |-> TRUE]]
  /\ UNCHANGED <<harnessVars, storage, state, popupVars>>

\* loadHistory resolved: nothing to export when the history is empty, else
\* the export is handed to chrome.downloads.download
downloadLoaded ==
  /\ optionsPage.pc = "download"
  /\ optionsPage' = IF loadHistory = <<>>
                    THEN [pc |-> "ready", downloadButton |-> [disabled |-> FALSE],
                          clearButton |-> [disabled |-> FALSE]]
                    ELSE [optionsPage EXCEPT !.pc = "downloading"]
  /\ UNCHANGED <<harnessVars, storage, state, popupVars>>

\* chrome.downloads.download settled; finally enables the buttons
downloadFinished ==
  /\ optionsPage.pc = "downloading"
  /\ optionsPage' = [pc |-> "ready", downloadButton |-> [disabled |-> FALSE],
                     clearButton |-> [disabled |-> FALSE]]
  /\ UNCHANGED <<harnessVars, storage, state, popupVars>>

\* clearStoredHistory: the click shows window.confirm, which blocks the
\* options page (and nothing else) until the user answers
clearStoredHistory ==
  /\ optionsPage.pc = "ready"
  /\ ~optionsPage.clearButton.disabled
  /\ optionsPage' = [optionsPage EXCEPT !.pc = "confirm"]
  /\ UNCHANGED <<harnessVars, storage, state, popupVars>>

\* The user answers the dialog: declined returns at once, confirmed
\* disables the buttons, up to await chrome.storage.local.set
confirmAnswered ==
  /\ optionsPage.pc = "confirm"
  /\ \E confirmed \in BOOLEAN :
       optionsPage' = IF confirmed
                      THEN [pc |-> "clearing", downloadButton |-> [disabled |-> TRUE],
                            clearButton |-> [disabled |-> TRUE]]
                      ELSE [optionsPage EXCEPT !.pc = "ready"]
  /\ UNCHANGED <<harnessVars, storage, state, popupVars>>

historyCleared_KeepsState ==
  /\ optionsPage.pc = "clearing"
  /\ storage' = storageSet(options_STORAGE_KEY, Array(<<>>))
  /\ optionsPage' = [pc |-> "ready", downloadButton |-> [disabled |-> FALSE],
                     clearButton |-> [disabled |-> FALSE]]
  /\ UNCHANGED <<harnessVars, state, popupVars>>

\* The set of the empty array completed: buildState([]), render, and the
\* finally block enables the buttons
historyCleared ==
  /\ optionsPage.pc = "clearing"
  /\ storage' = storageSet(options_STORAGE_KEY, Array(<<>>))
  /\ state' = buildState(<<>>, state)
  /\ optionsPage' = [pc |-> "ready", downloadButton |-> [disabled |-> FALSE],
                     clearButton |-> [disabled |-> FALSE]]
  /\ UNCHANGED <<harnessVars, popupVars>>

----------------------------------------------------------------------------
(* The extension: popup and options page run as two pages over one store *)

Next ==
  \/ (\E t \in Tasks : captureCurrentPage(t)) /\ UNCHANGED erased
  \/ (\E t \in Tasks : tabQueried(t)) /\ UNCHANGED erased
  \/ (\E t \in Tasks : scrapeOpenProcessingPage(t)) /\ UNCHANGED erased
  \/ (\E t \in Tasks : pageScraped(t)) /\ UNCHANGED erased
  \/ (\E t \in Tasks : historyLoaded(t)) /\ UNCHANGED erased
  \/ (\E t \in Tasks : historySaved(t)) /\ UNCHANGED erased
  \/ (\E t \in Tasks : storedCountRefreshed(t)) /\ UNCHANGED erased
  \/ (\E t \in Tasks : badgeUpdated(t)) /\ UNCHANGED erased
  \/ openOptionsPage /\ UNCHANGED erased
  \/ init /\ UNCHANGED erased
  \/ filterChanged /\ UNCHANGED erased
  \/ downloadStoredHistory /\ UNCHANGED erased
  \/ downloadLoaded /\ UNCHANGED erased
  \/ downloadFinished /\ UNCHANGED erased
  \/ clearStoredHistory /\ UNCHANGED erased
  \/ confirmAnswered /\ UNCHANGED erased
  \/ historyCleared /\ UNCHANGED erased

Spec == Init /\ [][Next]_vars

----------------------------------------------------------------------------
(* Node collector: the data file (fetchViews.js) *)

\* JavaScript numbers of the collector's records: mapSketch makes them with
\* Number(), which yields NaN for a missing or non-numeric field.
Num(n) == [t |-> "number", n |-> n]
NaN == [t |-> "NaN"]

\* Number(value) for the values the API sends: numbers, numeric strings,
\* other strings, or nothing
Number(value) ==
  IF value.t = "number" THEN value
  ELSE IF value.t = "string" /\ "n" \in DOMAIN value THEN Num(value.n)
  ELSE NaN

field(object, name, default) ==
  IF name \in DOMAIN object THEN object[name] ELSE default

mapSketch(sketch) ==
  [id |-> Number(field(sketch, "visualID", Undefined)),
   title |-> field(sketch, "title", ""),
   views |-> Number(field(sketch, "views", Num(0)))]

\* JSON.stringify of a number: a finite number prints its digits, NaN prints null
stringifyNumber(value) ==
  IF value.t = "number" THEN [literal |-> "digits", n |-> value.n]
  ELSE [literal |-> "null"]

\* JSON.parse of a number or null literal
parseLiteral(text) ==
  IF text.literal = "digits" THEN Num(text.n) ELSE Null

\* JSON.stringify(data, null, 2) + "\n" for an array of snapshots
JSONstringify(data) ==
  [t |-> "text",
   array |-> [i \in DOMAIN data |->
     [date |-> data[i].date,
      fetched_at |-> data[i].fetched_at,
      sketches |-> [j \in DOMAIN data[i].sketches |->
        [id |-> stringifyNumber(data[i].sketches[j].id),
         title |-> data[i].sketches[j].title,
         views |-> stringifyNumber(data[i].sketches[j].views)]]]]]

JSONparse(raw) ==
  [i \in DOMAIN raw.array |->
    [date |-> raw.array[i].date,
     fetched_at |-> raw.array[i].fetched_at,
     sketches |-> [j \in DOMAIN raw.array[i].sketches |->
       [id |-> parseLiteral(raw.array[i].sketches[j].id),
        title |-> raw.array[i].sketches[j].title,
        views |-> parseLiteral(raw.array[i].sketches[j].views)]]]]

loadData_AlwaysEmpty(file) == <<>>

\* loadData reads dataFile; the model passes the file in.
loadData(file) ==
  IF file = NoFile THEN <<>> ELSE JSONparse(file)

\* The content saveData leaves in the data file.
saveData(data) == JSONstringify(data)

\* new Date().toISOString(): UTC, offset 0
toISOString(now) == [kind |-> "ts", wall |-> now, off |-> 0]

----------------------------------------------------------------------------
(* Node collector: one run of fetchViews.js (main, fetchAllSketches)       *)

USER_ID == 78298
PAGE_LIMIT == 10

MaxPages == 1    \* full pages after which the model stops following the loop
MaxClock == 2    \* the Node clock reads an instant in 0..MaxClock

\* A string whose characters matter (the cookie) is the sequence of them.
Str(chars) == [t |-> "string", chars |-> chars]
Whitespace == {" ", "\t"}

RECURSIVE trimStart(_)
trimStart(chars) ==
  IF chars # <<>> /\ Head(chars) \in Whitespace THEN trimStart(Tail(chars)) ELSE chars

RECURSIVE trimEnd(_)
trimEnd(chars) ==
  IF chars # <<>> /\ chars[Len(chars)] \in Whitespace
  THEN trimEnd(SubSeq(chars, 1, Len(chars) - 1))
  ELSE chars

\* String.prototype.trim
trim(chars) == trimEnd(trimStart(chars))

\* process.env.OPENPROCESSING_COOKIE: unset, empty, blank, or a cookie
\* string with or without blanks around it
CookieValues ==
  { Undefined, Str(<<>>), Str(<<" ", "\t">>),
    Str(<<"c", "=", "1">>), Str(<<" ", "c", "=", "1", ";", " ", "d", "\t">>) }

BASE_REQUEST_HEADERS ==
  ("User-Agent" :> "Mozilla/5.0 (Macintosh; Intel Mac OS X 10_15_7) AppleWebKit/537.36 (KHTML, like Gecko) Chrome/122.0.0.0 Safari/537.36")
    @@ ("Accept" :> "application/json, text/plain, */*")
    @@ ("Referer" :> "https://openprocessing.org/")

CLOUDFLARE_HINT ==
  [says |-> "OpenProcessing is returning a Cloudflare block page.",
   names |-> "OPENPROCESSING_COOKIE"]

buildRequestHeaders_NoTrim(env) ==
  IF env = Undefined THEN BASE_REQUEST_HEADERS
  ELSE IF trim(env.chars) = <<>> THEN BASE_REQUEST_HEADERS
  ELSE BASE_REQUEST_HEADERS @@ ("Cookie" :> env)

buildRequestHeaders(env) ==
  IF env = Undefined THEN BASE_REQUEST_HEADERS
  ELSE IF trim(env.chars) = <<>> THEN BASE_REQUEST_HEADERS
  ELSE BASE_REQUEST_HEADERS @@ ("Cookie" :> Str(trim(env.chars)))

\* A text in which only the phrases it contains matter is the set of them,
\* each in lower case or capitalised.
Phrase(words, capitalised) == [words |-> words, capitalised |-> capitalised]
Text(phrases) == [t |-> "string", phrases |-> phrases]
toLowerCase(text) == {Phrase(p.words, FALSE) : p \in text}
includes(text, words) == Phrase(words, FALSE) \in text

isCloudflareBlock_AnyServer(response, bodyText) ==
  \/ includes(toLowerCase(bodyText), "sorry, you have been blocked")
  \/ includes(toLowerCase(bodyText), "attention required")

isCloudflareBlock(response, bodyText) ==
  LET serverHeader == IF response.server = Null THEN {}
                      ELSE toLowerCase(response.server.phrases)
      body == toLowerCase(bodyText)
  IN  /\ includes(serverHeader, "cloudflare")
      /\ \/ includes(body, "sorry, you have been blocked")
         \/ includes(body, "attention required")

\* fetch(url, {headers: buildRequestHeaders()}) of fetchSketchPage(offset)
Request(offset, env) ==
  [url |-> [path |-> "https://openprocessing.org/api/sketch", userID |-> USER_ID,
            limit |-> PAGE_LIMIT, offset |-> offset, isPublic |-> 1],
   headers |-> buildRequestHeaders(env)]

\* The error fetchSketchPage throws on a response that is not ok.
fetchError(request, response) ==
  IF response.status = 403 /\ isCloudflareBlock(response, response.body)
  THEN [t |-> "Error", status |-> 403, url |-> request.url, hint |-> CLOUDFLARE_HINT]
  ELSE [t |-> "Error", status |-> response.status, url |-> request.url]

\* What the API sends for the page at an offset: items one after the other
\* from the offset on.
ApiPage(offset, length) ==
  [j \in 1..length |-> [visualID |-> Num(offset + j), title |-> "s", views |-> Num(j)]]

PageLengths == {0, PAGE_LIMIT - 1, PAGE_LIMIT}

BlockPage == {Phrase("attention required", TRUE), Phrase("sorry, you have been blocked", TRUE)}

\* The responses of the site to a request.
Responses(offset) ==
  {[ok |-> TRUE, status |-> 200, json |-> Array(ApiPage(offset, n))] : n \in PageLengths}
    \cup {[ok |-> TRUE, status |-> 200, json |-> [t |-> "object"]]}
    \cup {[ok |-> FALSE, status |-> status, server |-> server, body |-> body] :
            status \in {403, 500},
            server \in {Null, Text({Phrase("cloudflare", FALSE)}),
                        Text({Phrase("cloudflare", TRUE)}), Text({Phrase("nginx", FALSE)})},
            body \in {BlockPage, {Phrase("forbidden", TRUE)}}}

replaceOrPush_AlwaysPush(data, snapshot) == Append(data, snapshot)

\* data.findIndex((entry) => entry.date === date), 0 when there is none
existingIndex(data, date) ==
  LET existing == {i \in DOMAIN data : data[i].date = date}
  IN  IF existing = {} THEN 0 ELSE Min(existing)

\* main: the entry at existingIndex is replaced, or the snapshot is pushed
replaceOrPush(data, snapshot) ==
  IF existingIndex(data, snapshot.date) # 0
  THEN [data EXCEPT ![existingIndex(data, snapshot.date)] = snapshot]
  ELSE Append(data, snapshot)

\* node src/fetchViews.js: main reads the date, fetchAllSketches calls
\* fetchSketchPage(0), which sends the first request.
main ==
  /\ node.pc \in {"idle", "done", "failed"}
  /\ \E env \in CookieValues :
       node' = [pc |-> "fetching", env |-> env, date |-> todayUTC(clock), offset |-> 0,
                sketches |-> <<>>, request |-> Request(0, env), response |-> Empty,
                error |-> Empty, existingIndex |-> 0]
  /\ UNCHANGED <<clock, dataFile, callArg, callRet, storage, popupVars, optionsVars, erased>>

\* fetch resolves with the site's response.
responded ==
  /\ node.pc = "fetching"
  /\ \E response \in Responses(node.offset) :
       node' = [node EXCEPT !.response = response,
                            !.pc = IF response.ok THEN "parsing" ELSE "reading"]
  /\ UNCHANGED <<clock, dataFile, callArg, callRet, storage, popupVars, optionsVars, erased>>

\* response.text() resolves: fetchSketchPage throws, fetchAllSketches and
\* main reject, the process exits with code 1.
bodyRead ==
  /\ node.pc = "reading"
  /\ node' = [node EXCEPT !.pc = "failed",
                          !.error = fetchError(node.request, node.response),
                          !.sketches = <<>>]
  /\ UNCHANGED <<clock, dataFile, callArg, callRet, storage, popupVars, optionsVars, erased>>

pageParsed_StopsOnFullPage ==
  /\ node.pc = "parsing"
  /\ LET page == node.response.json
         sketches == IF ~IsArray(page) THEN node.sketches ELSE node.sketches \o page.items
         snapshot == [date |-> node.date, fetched_at |-> toISOString(clock),
                      sketches |-> [j \in DOMAIN sketches |-> mapSketch(sketches[j])]]
     IN  /\ node' = [node EXCEPT !.pc = "done", !.sketches = sketches,
                                      !.existingIndex = existingIndex(loadData(dataFile), node.date)]
         /\ dataFile' = saveData(replaceOrPush(loadData(dataFile), snapshot))
  /\ UNCHANGED <<clock, callArg, callRet, storage, popupVars, optionsVars, erased>>

\* response.json() resolves: the body of the loop of fetchAllSketches.  On
\* break the list is returned to main, which maps it, loads the data file,
\* replaces or pushes the snapshot and saves.  Otherwise the next page is
\* requested.
pageParsed ==
  /\ node.pc = "parsing"
  /\ LET page == node.response.json
         empty == ~IsArray(page) \/ Len(page.items) = 0
         sketches == IF empty THEN node.sketches ELSE node.sketches \o page.items
         snapshot == [date |-> node.date, fetched_at |-> toISOString(clock),
                      sketches |-> [j \in DOMAIN sketches |-> mapSketch(sketches[j])]]
     IN  IF empty \/ Len(page.items) < PAGE_LIMIT
         THEN /\ node' = [node EXCEPT !.pc = "done", !.sketches = sketches,
                                      !.existingIndex = existingIndex(loadData(dataFile), node.date)]
              /\ dataFile' = saveData(replaceOrPush(loadData(dataFile), snapshot))
         ELSE /\ node.offset < MaxPages * PAGE_LIMIT
              /\ node' = [node EXCEPT !.pc = "fetching", !.sketches = sketches,
                                      !.offset = node.offset + PAGE_LIMIT,
                                      !.request = Request(node.offset + PAGE_LIMIT, node.env)]
              /\ UNCHANGED dataFile
  /\ UNCHANGED <<clock, callArg, callRet, storage, popupVars, optionsVars, erased>>

\* Time passes.
tick ==
  /\ clock < MaxClock
  /\ clock' = clock + 1
  /\ UNCHANGED <<node, dataFile, callArg, callRet, storage, popupVars, optionsVars, erased>>

NextNode ==
  \/ main
  \/ responded
  \/ bodyRead
  \/ pageParsed
  \/ tick

SpecNode == Init /\ [][NextNode]_vars

\* The first run.
firstRun == node.pc = "idle" /\ main

NextRun ==
  \/ firstRun
  \/ responded
  \/ bodyRead
  \/ pageParsed

\* One run of the script, with the event loop: the continuation of a
\* settled promise is run.
SpecRun == Init /\ [][NextRun]_vars /\ WF_vars(bodyRead) /\ WF_vars(pageParsed)

----------------------------------------------------------------------------
(* The load and save primitives applied to bounded inputs *)

ApiSketches ==
  { [visualID |-> [t |-> "string", n |-> 1], title |-> "a", views |-> [t |-> "string", n |-> 2]],
    [visualID |-> Num(2), title |-> "b", views |-> Num(0)],
    [title |-> "c"] }

\* Arrays the Node collector hands to saveData: snapshots of mapped sketches
NodeSnapshots ==
  {[date |-> todayUTC(now), fetched_at |-> toISOString(now), sketches |-> sketches] :
     now \in Times,
     sketches \in {<<>>} \cup {<<mapSketch(a)>> : a \in ApiSketches}}
NodeHistories ==
  {<<>>} \cup {<<a>> : a \in NodeSnapshots}
    \cup {<<a, b>> : a \in {x \in NodeSnapshots : x.sketches # <<>>}, b \in {x \in NodeSnapshots : x.sketches = <<>>}}

\* Histories the popup hands to saveSnapshotHistory
PopupSnapshots ==
  {[date |-> todayUTC(now), fetched_at |-> nowAmsterdamTimestamp(now),
    page_url |-> OpenProcessingTab.url, sketches |-> l] :
     now \in Times, l \in SketchLists}
PopupHistories ==
  {<<>>} \cup {<<a>> : a \in PopupSnapshots}
    \cup {sortHistory(<<pair[1], pair[2]>>) :
            pair \in {q \in PopupSnapshots \X PopupSnapshots : q[1].fetched_at # q[2].fetched_at}}

\* Values chrome.storage.local may hold under the key
StoredValues ==
  {Undefined, Null, [t |-> "string"], [t |-> "object"], Num(0)}
    \cup {Array(h) : h \in PopupHistories}

InitStore ==
  /\ InitPages
  /\ storage \in [StorageKeys -> StoredValues]
  /\ dataFile = NoFile
  /\ callArg = Empty
  /\ callRet = Empty
  /\ erased = {}

idle == UNCHANGED <<popupVars, optionsVars, nodeVars, erased>>

callLoadSnapshotHistory ==
  /\ callRet' = [t |-> "loadSnapshotHistory", value |-> loadSnapshotHistory]
  /\ UNCHANGED <<storage, dataFile, callArg>>
  /\ idle

callLoadHistory ==
  /\ callRet' = [t |-> "loadHistory", value |-> loadHistory]
  /\ UNCHANGED <<storage, dataFile, callArg>>
  /\ idle

callSaveSnapshotHistory ==
  /\ \E history \in PopupHistories :
       /\ storage' = saveSnapshotHistory(history)
       /\ callArg' = [t |-> "saveSnapshotHistory", value |-> history]
  /\ callRet' = Empty
  /\ UNCHANGED dataFile
  /\ idle

callSaveData ==
  /\ \E data \in NodeHistories :
       /\ dataFile' = saveData(data)
       /\ callArg' = [t |-> "saveData", value |-> data]
  /\ callRet' = Empty
  /\ UNCHANGED storage
  /\ idle

callLoadData ==
  /\ callRet' = [t |-> "loadData", value |-> loadData(dataFile)]
  /\ UNCHANGED <<storage, dataFile, callArg>>
  /\ idle

NextStore ==
  \/ callLoadSnapshotHistory
  \/ callLoadHistory
  \/ callSaveSnapshotHistory
  \/ callSaveData
  \/ callLoadData

SpecStore == InitStore /\ [][NextStore]_vars

----------------------------------------------------------------------------
(* The extension with the record of what resets erased.  erased holds the  *)
(* snapshots a completed reset removed from the store and no capture has    *)
(* saved as its own snapshot since.                                         *)

storedItems ==
  IF storage[popup_STORAGE_KEY].t = "array" THEN storage[popup_STORAGE_KEY].items ELSE <<>>

historySavedRecorded(t) ==
  /\ historySaved(t)
  /\ erased' = IF captures'[t].pc = "refresh" THEN erased \ {captures[t].snapshot} ELSE erased

historyClearedRecorded ==
  /\ historyCleared
  /\ erased' = erased \cup Range(storedItems)

NextReset ==
  \/ (\E t \in Tasks : captureCurrentPage(t)) /\ UNCHANGED erased
  \/ (\E t \in Tasks : tabQueried(t)) /\ UNCHANGED erased
  \/ (\E t \in Tasks : scrapeOpenProcessingPage(t)) /\ UNCHANGED erased
  \/ (\E t \in Tasks : pageScraped(t)) /\ UNCHANGED erased
  \/ (\E t \in Tasks : historyLoaded(t)) /\ UNCHANGED erased
  \/ (\E t \in Tasks : historySavedRecorded(t))
  \/ (\E t \in Tasks : storedCountRefreshed(t)) /\ UNCHANGED erased
  \/ (\E t \in Tasks : badgeUpdated(t)) /\ UNCHANGED erased
  \/ openOptionsPage /\ UNCHANGED erased
  \/ init /\ UNCHANGED erased
  \/ filterChanged /\ UNCHANGED erased
  \/ downloadStoredHistory /\ UNCHANGED erased
  \/ downloadLoaded /\ UNCHANGED erased
  \/ downloadFinished /\ UNCHANGED erased
  \/ clearStoredHistory /\ UNCHANGED erased
  \/ confirmAnswered /\ UNCHANGED erased
  \/ historyClearedRecorded

SpecReset == Init /\ [][NextReset]_vars

----------------------------------------------------------------------------
(* Delta analyzer: the statistics of the options page (options.js) and of  *)
(* the popup (popup.js)                                                    *)

sumPoints_Count(series, position) == Len(series)

RECURSIVE sumPoints(_, _)
\* series.reduce((sum, line) => sum + Number(line.points[snapshotIndex]?.views || 0), 0);
\* position is snapshotIndex + 1.
sumPoints(series, position) ==
  IF series = <<>> THEN 0
  ELSE sumPoints(SubSeq(series, 1, Len(series) - 1), position)
         + (IF position \in DOMAIN series[Len(series)].points
            THEN series[Len(series)].points[position].views ELSE 0)

Increase(id, title, url, delta) ==
  [id |-> id, title |-> title, url |-> url, delta |-> delta]

insertByDelta(sorted, x) ==
  LET k == Cardinality({i \in DOMAIN sorted : x.delta - sorted[i].delta <= 0})
  IN  SubSeq(sorted, 1, k) \o <<x>> \o SubSeq(sorted, k + 1, Len(sorted))

sortIncreases_Unsorted(increases) == increases

RECURSIVE sortIncreases(_)
\* increases.sort((left, right) => right.delta - left.delta)
sortIncreases(increases) ==
  IF increases = <<>> THEN <<>>
  ELSE insertByDelta(sortIncreases(SubSeq(increases, 1, Len(increases) - 1)),
                     increases[Len(increases)])

computeLatestSketchIncreasesFromSeries(series) ==
  LET delta(line) == line.points[Len(line.points)].views
                       - line.points[Len(line.points) - 1].views
      rising == SelectSeq(series, LAMBDA line : Len(line.points) >= 2 /\ delta(line) > 0)
  IN  sortIncreases([i \in DOMAIN rising |->
        Increase(rising[i].id, rising[i].title, rising[i].url, delta(rising[i]))])

previousViews_Zero(previousSnapshot, id) == 0

\* previousById.get(sketchId) || 0: the views of the last record of that id
\* in the previous snapshot, 0 when there is none
previousViews(previousSnapshot, id) ==
  LET sketches == sketchesOf(previousSnapshot)
      m == {i \in DOMAIN sketches : sketches[i].id = id}
  IN  IF m = {} THEN 0 ELSE sketches[Max(m)].views

computeSketchIncreasesFromSnapshots(previousSnapshot, latestSnapshot) ==
  LET latestSketches == sketchesOf(latestSnapshot)
      delta(sketch) == sketch.views - previousViews(previousSnapshot, sketch.id)
      rising == SelectSeq(latestSketches, LAMBDA sketch : delta(sketch) > 0)
  IN  sortIncreases([i \in DOMAIN rising |->
        Increase(rising[i].id, seriesTitle(rising[i]), rising[i].url, delta(rising[i]))])

lastIncreaseIndex_Never(totals) == -1

\* The loop from totals.length - 1 down to 1; the result is the JavaScript
\* index (first element 0), -1 when no total exceeds the one before it.
lastIncreaseIndex(totals) ==
  LET rises == {i \in 2..Len(totals) : totals[i] > totals[i - 1]}
  IN  IF rises = {} THEN -1 ELSE Max(rises) - 1

\* What the statistics show after the total: the breakdown line.
breakdown(totals, latestDelta) ==
  IF latestDelta > 0 THEN [kind |-> "increase", by |-> latestDelta]
  ELSE IF lastIncreaseIndex(totals) = -1 THEN [kind |-> "none observed yet"]
  ELSE [kind |-> "none since",
        index |-> lastIncreaseIndex(totals),
        by |-> totals[lastIncreaseIndex(totals) + 1] - totals[lastIncreaseIndex(totals)]]

drawStats_AlwaysWaiting(series, snapshots) ==
  [totals |-> [i \in DOMAIN snapshots |-> sumPoints(series, i)],
   latestTotal |-> 0, latestDelta |-> Null,
   breakdown |-> [kind |-> "waiting for next capture"], increases |-> <<>>]

drawStats(series, snapshots) ==
  LET totals == [i \in DOMAIN snapshots |-> sumPoints(series, i)]
      latestTotal == IF totals # <<>> THEN totals[Len(totals)] ELSE 0
      increases == computeLatestSketchIncreasesFromSeries(series)
  IN  IF Len(totals) > 1
      THEN LET latestDelta == latestTotal - totals[Len(totals) - 1]
           IN  [totals |-> totals, latestTotal |-> latestTotal,
                latestDelta |-> Num(latestDelta),
                breakdown |-> breakdown(totals, latestDelta),
                increases |-> increases]
      ELSE [totals |-> totals, latestTotal |-> latestTotal,
            latestDelta |-> Null,
            breakdown |-> [kind |-> "waiting for next capture"],
            increases |-> increases]

\* render(): what the options page shows for a state
render(st) ==
  LET series == IF st.selectedSketchId = AllOption THEN st.series
                ELSE SelectSeq(st.series, LAMBDA item : IdOption(item.id) = st.selectedSketchId)
  IN  IF st.normalizedHistory = <<>> THEN [summary |-> "No stored snapshots yet."]
      ELSE IF series = <<>> THEN [summary |-> "No data for selected sketch."]
      ELSE [summary |-> "captures", stats |-> drawStats(series, st.normalizedHistory)]

drawPopupStats(history) ==
  LET totals == [i \in DOMAIN history |-> sumViews(sketchesOf(history[i]))]
  IN  IF history = <<>>
      THEN [totals |-> <<>>, latestTotal |-> 0, latestDelta |-> Null,
            breakdown |-> [kind |-> "waiting for captures"], increases |-> <<>>]
      ELSE IF Len(totals) < 2
      THEN [totals |-> totals, latestTotal |-> totals[Len(totals)], latestDelta |-> Null,
            breakdown |-> [kind |-> "waiting for next capture"], increases |-> <<>>]
      ELSE LET latestDelta == totals[Len(totals)] - totals[Len(totals) - 1]
           IN  [totals |-> totals, latestTotal |-> totals[Len(totals)],
                latestDelta |-> Num(latestDelta),
                breakdown |-> breakdown(totals, latestDelta),
                increases |-> computeSketchIncreasesFromSnapshots(
                                history[Len(history) - 1], history[Len(history)])]

----------------------------------------------------------------------------
(* The series builder, the delta analyzer and the merge applied to bounded *)
(* stored histories                                                        *)

MaxSnapshots == 3   \* snapshots in a stored history
MaxViews == 2       \* views of one sketch

SketchA(views) == Sketch(1, "a", views)
SketchB(views) == Sketch(2, "b", views)

\* What the collector delivers: at most one record per id, sorted
\* descending by views, records of equal views in either order.  Sketch a
\* has any number of views up to MaxViews; sketch b has none or MaxViews.
CollectedLists ==
  {<<SketchA(v)>> : v \in 0..MaxViews}
    \cup {<<SketchB(w)>> : w \in {0, MaxViews}}
    \cup {<<SketchA(q[1]), SketchB(q[2])>> :
            q \in {r \in (0..MaxViews) \X {0, MaxViews} : r[1] >= r[2]}}
    \cup {<<SketchB(q[1]), SketchA(q[2])>> :
            q \in {r \in {0, MaxViews} \X (0..MaxViews) : r[1] >= r[2]}}

CapturedSnapshot(now, sketches) ==
  [date |-> todayUTC(now), fetched_at |-> nowAmsterdamTimestamp(now),
   page_url |-> OpenProcessingTab.url, sketches |-> sketches]

\* A history the popup stores: captures at increasing instants, one for
\* each of the collected lists.
CapturedHistory(lists) ==
  [i \in DOMAIN lists |-> CapturedSnapshot(i - 1, lists[i])]

\* A snapshot whose fetched_at is no timestamp Date.parse accepts.
UnparsableSnapshot ==
  [date |-> todayUTC(0), fetched_at |-> [kind |-> "text", text |-> "n/a"],
   page_url |-> OpenProcessingTab.url, sketches |-> <<SketchA(1)>>]

RECURSIVE Orderings(_)
Orderings(S) ==
  IF S = {} THEN {<<>>}
  ELSE UNION {{<<x>> \o p : p \in Orderings(S \ {x})} : x \in S}

\* Stored arrays that did not come from this popup's captures alone: the
\* unparsable snapshot among captured ones, in any order, each fetched_at
\* once.
RestoredHistories ==
  UNION {Orderings({UnparsableSnapshot} \cup {CapturedSnapshot(now, <<SketchA(1)>>) : now \in T}) :
           T \in SUBSET (0..(MaxSnapshots - 1))}

InitStats ==
  /\ InitPages
  /\ \/ \E n \in 0..MaxSnapshots : \E lists \in [1..n -> CollectedLists] :
          storage = [key \in StorageKeys |-> Array(CapturedHistory(lists))]
     \/ \E lists \in [1..(MaxSnapshots + 1) -> {<<SketchA(v)>> : v \in 0..MaxViews}] :
          storage = [key \in StorageKeys |-> Array(CapturedHistory(lists))]
     \/ \E history \in RestoredHistories :
          storage = [key \in StorageKeys |-> Array(history)]
  /\ dataFile = NoFile
  /\ callArg = Empty
  /\ callRet = Empty
  /\ erased = {}

\* Each stored history is put through one call.
\* options.js init(): loadHistory, buildState, render
callInit ==
  /\ callRet = Empty
  /\ callArg' = [t |-> "init"]
  /\ callRet' =
       IF buildStateThrows(loadHistory)
       THEN [t |-> "init", error |-> TypeError,
             state |-> buildStateInterrupted(loadHistory, InitialState)]
       ELSE [t |-> "init",
             state |-> buildState(loadHistory, InitialState),
             view |-> render(buildState(loadHistory, InitialState))]
  /\ UNCHANGED <<storage, dataFile>>
  /\ idle

\* popup.js refreshStoredCount(): loadSnapshotHistory, drawPopupStats
callRefreshStoredCount ==
  /\ callRet = Empty
  /\ callArg' = [t |-> "refreshStoredCount"]
  /\ callRet' = [t |-> "refreshStoredCount", stats |-> drawPopupStats(loadSnapshotHistory)]
  /\ UNCHANGED <<storage, dataFile>>
  /\ idle

\* popup.js: appendSnapshot(history, snapshot) on the loaded history, the
\* snapshot taken at an instant of the clock
callAppendSnapshot ==
  /\ callRet = Empty
  /\ \E now \in Times :
       LET snapshot == CapturedSnapshot(now, <<SketchA(1)>>)
       IN  /\ callArg' = [t |-> "appendSnapshot", history |-> loadSnapshotHistory,
                          snapshot |-> snapshot]
           /\ callRet' = [t |-> "appendSnapshot",
                          value |-> appendSnapshot(loadSnapshotHistory, snapshot)]
  /\ UNCHANGED <<storage, dataFile>>
  /\ idle

NextStats ==
  \/ callInit
  \/ callRefreshStoredCount
  \/ callAppendSnapshot

SpecStats == InitStats /\ [][NextStats]_vars

----------------------------------------------------------------------------
(* The same calls on stored arrays this extension did not write: elements  *)
(* that are null or lack fetched_at, date or sketches, and sketches whose  *)
(* title or url changed between captures                                   *)

\* Sketch a after its owner renamed it and the site moved it.
RenamedA(views) ==
  [id |-> 1, title |-> "a (renamed)", views |-> views,
   url |-> [site |-> "openprocessing.org/sketch", sketch |-> 1]]

\* Sketch a scraped without a title.
UntitledA(views) == [SketchA(views) EXCEPT !.title = ""]

ForeignEntries ==
  { Null,
    CapturedSnapshot(0, <<SketchA(1)>>),
    CapturedSnapshot(1, <<RenamedA(2)>>),
    CapturedSnapshot(2, <<UntitledA(1), SketchB(1)>>),
    [date |-> todayUTC(0), sketches |-> <<SketchA(1)>>],
    [date |-> todayUTC(0), sketches |-> <<SketchA(2), SketchB(1)>>],
    [sketches |-> <<SketchB(2)>>],
    [date |-> todayUTC(2), fetched_at |-> nowAmsterdamTimestamp(3)] }

InitForeign ==
  /\ InitPages
  /\ \E n \in 0..MaxSnapshots : \E history \in [1..n -> ForeignEntries] :
       storage = [key \in StorageKeys |-> Array(history)]
  /\ dataFile = NoFile
  /\ callArg = Empty
  /\ callRet = Empty
  /\ erased = {}

SpecForeign == InitForeign /\ [][NextStats]_vars

----------------------------------------------------------------------------
(* Relative times (popup.js, options.js).  An instant is counted in         *)
(* milliseconds here, as Date.now() and Date.prototype.getTime count it.    *)

popup_formatRelativeTime_JustNowUnderAMinute(value, now) ==
  IF ~IsParsable(value) THEN [text |-> ""]
  ELSE IF now - DateParse(value) < 60 * 1000 THEN [text |-> "just now"]
  ELSE IF now - DateParse(value) < 60 * 60 * 1000
  THEN [n |-> (now - DateParse(value)) \div (60 * 1000), text |-> " min ago"]
  ELSE IF now - DateParse(value) < 24 * 60 * 60 * 1000
  THEN [n |-> (now - DateParse(value)) \div (60 * 60 * 1000), text |-> "h ago"]
  ELSE [n |-> (now - DateParse(value)) \div (24 * 60 * 60 * 1000), text |-> "d ago"]

\* popup.js formatRelativeTime(value), now being what Date.now() reads
popup_formatRelativeTime(value, now) ==
  LET minuteMs == 60 * 1000
      hourMs == 60 * minuteMs
      dayMs == 24 * hourMs
      elapsedMs == now - DateParse(value)
  IN  IF ~IsParsable(value) THEN [text |-> ""]
      ELSE IF elapsedMs < 0 THEN [text |-> "just now"]
      ELSE IF elapsedMs < hourMs
      THEN [n |-> Max({1, elapsedMs \div minuteMs}), text |-> " min ago"]
      ELSE IF elapsedMs < dayMs
      THEN [n |-> elapsedMs \div hourMs, text |-> "h ago"]
      ELSE [n |-> elapsedMs \div dayMs, text |-> "d ago"]

\* options.js formatRelativeTime(value)
options_formatRelativeTime(value, now) ==
  LET minuteMs == 60 * 1000
      hourMs == 60 * minuteMs
      dayMs == 24 * hourMs
      elapsedMs == now - DateParse(value)
  IN  IF ~IsParsable(value) THEN [text |-> ""]
      ELSE IF elapsedMs < 0 THEN [text |-> "just now"]
      ELSE IF elapsedMs < hourMs
      THEN [n |-> Max({1, elapsedMs \div minuteMs}), text |-> " min ago"]
      ELSE IF elapsedMs < dayMs
      THEN [n |-> elapsedMs \div hourMs, text |-> "h ago"]
      ELSE [n |-> elapsedMs \div dayMs, text |-> "d ago"]

----------------------------------------------------------------------------
(* The formatters applied to bounded inputs *)

Margin == 3      \* how far around each threshold the inputs reach

Around(thresholds) ==
  {b + d : b \in thresholds, d \in (0 - Margin)..Margin}

\* Totals of views around the thresholds of formatBadgeNumber and around
\* the halves at which Math.round turns.
BadgeInputs ==
  {n \in Around({0, 1000, 1500, 2500, 999500, 1000000, 1500000, 2500000}) : n >= 0}

\* Elapsed milliseconds around the thresholds of formatRelativeTime.
ElapsedInputs ==
  Around({0, 60 * 1000, 2 * 60 * 1000, 60 * 60 * 1000, 2 * 60 * 60 * 1000,
          24 * 60 * 60 * 1000, 2 * 24 * 60 * 60 * 1000})

\* What Date.now() reads when a relative time is formatted.
FormatNow == 3 * 24 * 60 * 60 * 1000

InitFormat ==
  /\ InitPages
  /\ storage = [key \in StorageKeys |-> Undefined]
  /\ dataFile = NoFile
  /\ \/ \E n \in BadgeInputs : callArg = [t |-> "formatBadgeNumber", value |-> n]
     \/ \E e \in ElapsedInputs :
          callArg = [t |-> "formatRelativeTime", now |-> FormatNow,
                     value |-> [kind |-> "ts", wall |-> FormatNow - e, off |-> 0]]
     \/ callArg = [t |-> "formatRelativeTime", now |-> FormatNow,
                   value |-> [kind |-> "text", text |-> "n/a"]]
  /\ callRet = Empty
  /\ erased = {}

callFormatBadgeNumber ==
  /\ callArg.t = "formatBadgeNumber"
  /\ callRet = Empty
  /\ callRet' = [t |-> "formatBadgeNumber", value |-> formatBadgeNumber(callArg.value)]
  /\ UNCHANGED <<callArg, storage, dataFile>>
  /\ idle

callFormatRelativeTime ==
  /\ callArg.t = "formatRelativeTime"
  /\ callRet = Empty
  /\ callRet' = [t |-> "formatRelativeTime",
                 popup |-> popup_formatRelativeTime(callArg.value, callArg.now),
                 options |-> options_formatRelativeTime(callArg.value, callArg.now)]
  /\ UNCHANGED <<callArg, storage, dataFile>>
  /\ idle

NextFormat ==
  \/ callFormatBadgeNumber
  \/ callFormatRelativeTime

SpecFormat == InitFormat /\ [][NextFormat]_vars

----------------------------------------------------------------------------
(* Properties *)

\* The instant a snapshot's effective timestamp denotes: fetched_at if
\* present, else date.
instant(snapshot) ==
  IF "fetched_at" \in DOMAIN snapshot
  THEN snapshot.fetched_at.wall - snapshot.fetched_at.off
  ELSE snapshot.date.day * DayLen

occurrences(seq, x) == Cardinality({i \in DOMAIN seq : seq[i] = x})

\* The step in which appendSnapshot runs in invocation t.
merges(t) == captures[t].pc = "load" /\ captures'[t].pc = "save"

inFlight == {t \in Tasks : captures[t].pc # "idle"}

\* C1: when the history already holds an entry with the snapshot's
\* fetched_at, appendSnapshot keeps the length, puts the snapshot at that
\* entry's index, leaves every other entry at its index, and merging the
\* same snapshot once more changes nothing.
C1_ReplaceInPlace ==
  [][\A t \in Tasks :
       merges(t) =>
         LET before == storedItems
             s == captures[t].snapshot
             after == captures'[t].history
         IN  (\E i \in DOMAIN before : before[i].fetched_at = s.fetched_at) =>
               /\ Len(after) = Len(before)
               /\ \E i \in DOMAIN before :
                    /\ before[i].fetched_at = s.fetched_at
                    /\ after[i] = s
                    /\ \A j \in DOMAIN before : j # i => after[j] = before[j]
               /\ appendSnapshot(after, s) = after]_vars

\* C1 witness: a merge replaced the first of two stored entries by a
\* snapshot of the same fetched_at with other sketches.
C1_Witness ==
  \E t \in Tasks :
    /\ captures[t].pc = "save"
    /\ Len(storedItems) >= 2
    /\ storedItems[1].fetched_at = captures[t].snapshot.fetched_at
    /\ storedItems[1].sketches # captures[t].snapshot.sketches
    /\ captures[t].history = [storedItems EXCEPT ![1] = captures[t].snapshot]

\* C2: after any sequence of merges, in any order, the stored history and
\* every merged history are non-decreasing by effective timestamp.
C2_SortedByEffectiveTimestamp ==
  /\ \A i, j \in DOMAIN storedItems :
       i < j => instant(storedItems[i]) <= instant(storedItems[j])
  /\ \A t \in Tasks : captures[t].pc \in {"save", "refresh", "badge"} =>
       \A i, j \in DOMAIN captures[t].history :
         i < j => instant(captures[t].history[i]) <= instant(captures[t].history[j])

\* C2 witness: a snapshot older than every stored one was merged and sits
\* in front of them.
C2_Witness ==
  \E t \in Tasks :
    /\ captures[t].pc = "save"
    /\ Len(storedItems) >= 1
    /\ Len(captures[t].history) = Len(storedItems) + 1
    /\ captures[t].history[1] = captures[t].snapshot
    /\ instant(captures[t].snapshot) < instant(storedItems[1])

\* C3: no two snapshots of a history built by merges share a fetched_at.
C3_NoDuplicateFetchedAt ==
  /\ \A i, j \in DOMAIN storedItems :
       i # j => storedItems[i].fetched_at # storedItems[j].fetched_at
  /\ \A t \in Tasks : captures[t].pc \in {"save", "refresh", "badge"} =>
       \A i, j \in DOMAIN captures[t].history :
         i # j => captures[t].history[i].fetched_at # captures[t].history[j].fetched_at

\* C3 witness: a capture was saved into a history of two snapshots whose
\* count the popup had shown before, so the capture met its own fetched_at.
C3_Witness ==
  \E t \in Tasks :
    /\ captures[t].pc = "refresh"
    /\ storedItems = captures[t].history
    /\ Len(storedItems) >= 2
    /\ storedEl.count = Len(storedItems)

\* C4: when no stored entry has the snapshot's fetched_at, the merged
\* history holds the snapshot and every stored snapshot exactly once, one
\* entry more than before, also when a stored snapshot has the same date.
C4_AppendKeepsAll ==
  [][\A t \in Tasks :
       merges(t) =>
         LET before == storedItems
             s == captures[t].snapshot
             after == captures'[t].history
         IN  (\A i \in DOMAIN before : before[i].fetched_at # s.fetched_at) =>
               /\ Len(after) = Len(before) + 1
               /\ occurrences(after, s) = 1
               /\ \A i \in DOMAIN before : occurrences(after, before[i]) = 1]_vars

\* C4 witness: a second capture of the same calendar date was merged as a
\* separate entry.
C4_Witness ==
  \E t \in Tasks :
    /\ captures[t].pc = "save"
    /\ Len(captures[t].history) = Len(storedItems) + 1
    /\ \E i \in DOMAIN storedItems :
         /\ storedItems[i].date = captures[t].snapshot.date
         /\ storedItems[i].fetched_at # captures[t].snapshot.fetched_at
         /\ occurrences(captures[t].history, storedItems[i]) = 1

\* C5: at most one capture is in flight; the capture button is disabled
\* exactly while one is, so it is enabled again when the capture ends,
\* in success and in failure.
C5_OneCaptureInFlight ==
  /\ Cardinality(inFlight) <= 1
  /\ captureButton.disabled <=> inFlight # {}

\* C5 witness: a capture is between its load and its save, the button
\* disabled.
C5_Witness ==
  \E t \in Tasks :
    /\ captures[t].pc = "save"
    /\ captureButton.disabled
    /\ storedItems # <<>>

\* A collector result the popup rejects: missing, sketches not a list, or
\* an empty list.
badResult(result) ==
  \/ result = Undefined
  \/ result.sketches.t # "array"
  \/ result.sketches.items = <<>>

\* C6: when the collector's result is missing, not a list, or empty, the
\* capture ends there with an error shown and the store as it was.
C6_BadResultAborts ==
  [][\A t \in Tasks :
       (captures[t].pc = "scraped" /\ badResult(captures[t].result)
          /\ captures'[t] # captures[t]) =>
         /\ captures'[t].pc = "idle"
         /\ statusEl'.isError
         /\ storage' = storage]_vars

\* C6 witness: a capture of an empty sketch list ended with the error shown
\* and the stored history still there.
C6_Witness ==
  /\ statusEl = Status("No sketches found on this page.", TRUE)
  /\ inFlight = {}
  /\ storedItems # <<>>

\* C7: loadSnapshotHistory and loadHistory return the empty history when
\* the stored value is missing or is not an array, and the stored array
\* otherwise.
C7_LoadDefaultsToEmpty ==
  /\ callRet.t = "loadSnapshotHistory" =>
       callRet.value = IF storage[popup_STORAGE_KEY].t = "array"
                       THEN storage[popup_STORAGE_KEY].items ELSE <<>>
  /\ callRet.t = "loadHistory" =>
       callRet.value = IF storage[options_STORAGE_KEY].t = "array"
                       THEN storage[options_STORAGE_KEY].items ELSE <<>>

\* C7 witness: loadHistory returned the empty history for a stored value
\* that is an object, not an array.
C7_Witness ==
  /\ callRet.t = "loadHistory"
  /\ storage[options_STORAGE_KEY] = [t |-> "object"]
  /\ callRet.value = <<>>

savedThenLoaded(save, load) == callArg.t = save /\ callRet.t = load

hasNaN(data) ==
  \E i \in DOMAIN data : \E j \in DOMAIN data[i].sketches :
    data[i].sketches[j].id = NaN \/ data[i].sketches[j].views = NaN

C9_ResetClearsStoreAndState ==
  [][/\ (optionsPage.pc = "clearing" /\ optionsPage'.pc = "ready") =>
          /\ storage'[options_STORAGE_KEY] = Array(<<>>)
          /\ state'.normalizedHistory = <<>>
          /\ state'.timeLabels = <<>>
          /\ state'.series = <<>>
     /\ (optionsPage.pc = "confirm" /\ optionsPage'.pc = "ready") =>
          /\ storage' = storage
          /\ state' = state]_vars

\* C9 witness: after captures were stored, a confirmed reset left the
\* empty array in the store and an empty options state.
C9_Witness ==
  /\ optionsPage.pc = "ready"
  /\ storage[options_STORAGE_KEY] = Array(<<>>)
  /\ state.normalizedHistory = <<>>
  /\ state.series = <<>>
  /\ storedEl.count >= 1

\* C10: once a confirmed reset has written the empty array, the stored
\* history never again holds a snapshot the reset erased, also when a
\* capture that loaded before the reset saves after it.
C10_ResetIrreversible ==
  \A i \in DOMAIN storedItems : storedItems[i] \notin erased

----------------------------------------------------------------------------
(* Properties of the series builder and the delta analyzer *)

\* The ids of the sketches recorded in a snapshot.
idsIn(snapshot) == {sketchesOf(snapshot)[j].id : j \in DOMAIN sketchesOf(snapshot)}

\* The options page was built from the stored history.
built == callRet.t = "init"

viewedIds(history) ==
  {id \in UNION {idsIn(history[i]) : i \in DOMAIN history} :
     \E i \in DOMAIN history : \E j \in DOMAIN sketchesOf(history[i]) :
       sketchesOf(history[i])[j].id = id /\ sketchesOf(history[i])[j].views > 0}

\* C12: the series hold exactly the sketches with views greater than 0 in
\* at least one snapshot, each once.
C12_ZeroFilter ==
  built =>
    /\ {callRet.state.series[k].id : k \in DOMAIN callRet.state.series}
         = viewedIds(loadHistory)
    /\ \A k, l \in DOMAIN callRet.state.series :
         callRet.state.series[k].id = callRet.state.series[l].id => k = l

\* C12 witness: a sketch recorded in every snapshot, always with 0 views,
\* is left out while another sketch is kept.
C12_Witness ==
  /\ built
  /\ Len(loadHistory) >= 2
  /\ callRet.state.series # <<>>
  /\ \E id \in idsIn(loadHistory[1]) :
       /\ \A i \in DOMAIN loadHistory : id \in idsIn(loadHistory[i])
       /\ id \notin viewedIds(loadHistory)
       /\ \A k \in DOMAIN callRet.state.series : callRet.state.series[k].id # id

\* The place of a sketch's first record in the scan of the history.
firstSeen(history, id) ==
  Min({k \in DOMAIN observations(history, 1) : observations(history, 1)[k].sketch.id = id})

\* C13: the series are in descending order of latestViews, the views of
\* the last point, and series of equal latestViews are in the order in
\* which their ids were first met in the scan of the history.
C13_SeriesOrder ==
  built =>
    LET series == callRet.state.series
        history == callRet.state.normalizedHistory
    IN  /\ \A k \in DOMAIN series :
             series[k].latestViews = series[k].points[Len(series[k].points)].views
        /\ \A k, l \in DOMAIN series : k < l =>
             /\ series[k].latestViews >= series[l].latestViews
             /\ series[k].latestViews = series[l].latestViews =>
                  firstSeen(history, series[k].id) < firstSeen(history, series[l].id)

\* C13 witness: two series of equal latestViews, sketch b first because it
\* was met first, the order the other way round in the last snapshot.
C13_Witness ==
  /\ built
  /\ Len(callRet.state.series) = 2
  /\ Len(loadHistory) >= 2
  /\ callRet.state.series[1].id = 2
  /\ callRet.state.series[1].latestViews = callRet.state.series[2].latestViews
  /\ callRet.state.series[1].latestViews > 0
  /\ sketchesOf(loadHistory[Len(loadHistory)])[1].id = 1

\* C14: an open options page at rest, no capture running, shows the
\* derived state of the history that is stored: after every change of the
\* stored history the normalizedHistory, timeLabels and series are rebuilt
\* from it.
C14_DerivedStateFollowsStore ==
  (optionsPage.pc = "ready" /\ inFlight = {}) =>
    /\ state.normalizedHistory = buildState(loadHistory, state).normalizedHistory
    /\ state.timeLabels = buildState(loadHistory, state).timeLabels
    /\ state.series = buildState(loadHistory, state).series

\* The statistics a call produced: drawPopupStats in the popup, drawStats
\* in the options page when render reached it.
popupDrew == callRet.t = "refreshStoredCount"
optionsDrew == built /\ "stats" \in DOMAIN callRet.view

\* For statistics over a history of len snapshots: no latest delta exactly
\* when len < 2, then with a waiting line; else the difference of the last
\* two totals.
latestDeltaIsRight(stats, len) ==
  /\ stats.latestDelta = Null <=> len < 2
  /\ len < 2 => stats.breakdown.kind \in {"waiting for next capture", "waiting for captures"}
  /\ len = 1 => stats.breakdown.kind = "waiting for next capture"
  /\ len >= 2 =>
       stats.latestDelta = Num(stats.totals[len] - stats.totals[len - 1])

rises(totals) == {i \in 1..(Len(totals) - 1) : totals[i + 1] > totals[i]}

lookbackIsRight(stats) ==
  (stats.latestDelta # Null /\ stats.latestDelta.n <= 0) =>
    /\ stats.breakdown.kind = "none observed yet" <=> rises(stats.totals) = {}
    /\ rises(stats.totals) # {} =>
         \E i \in rises(stats.totals) :
           /\ \A j \in rises(stats.totals) : j <= i
           /\ stats.breakdown =
                [kind |-> "none since", index |-> i,
                 by |-> stats.totals[i + 1] - stats.totals[i]]

\* C16: when the latest delta is not positive, the lookback reports the
\* greatest index i >= 1 with totals[i] > totals[i-1] and that difference,
\* and "none observed yet" exactly when there is no such index.
C16_LastIncreaseLookback ==
  /\ popupDrew => lookbackIsRight(callRet.stats)
  /\ optionsDrew => lookbackIsRight(callRet.view.stats)

\* C16 witness: totals that rose twice and then stayed: the later rise, at
\* index 2, is the one reported.
C16_Witness ==
  /\ popupDrew
  /\ Len(callRet.stats.totals) = 4
  /\ rises(callRet.stats.totals) = {1, 2}
  /\ callRet.stats.latestDelta = Num(0)
  /\ callRet.stats.breakdown.kind = "none since"
  /\ callRet.stats.breakdown.index = 2

\* The views a snapshot records for a sketch, 0 when it records none.
viewsIn(snapshot, id) ==
  LET sketches == sketchesOf(snapshot)
  IN  IF id \in idsIn(snapshot)
      THEN sketches[CHOOSE j \in DOMAIN sketches : sketches[j].id = id].views
      ELSE 0

\* The place of a sketch in a list of records with ids.
placeIn(list, id) == Min({k \in DOMAIN list : list[k].id = id})

\* increases lists exactly the sketches ids, each once with the difference
\* of its views, in descending order of delta, equal deltas in the order of
\* encounter.
increasesAre(increases, ids, previous, latest, encounter) ==
  /\ {increases[k].id : k \in DOMAIN increases} = ids
  /\ \A k, l \in DOMAIN increases : increases[k].id = increases[l].id => k = l
  /\ \A k \in DOMAIN increases :
       increases[k].delta = viewsIn(latest, increases[k].id) - viewsIn(previous, increases[k].id)
  /\ \A k, l \in DOMAIN increases : k < l =>
       /\ increases[k].delta >= increases[l].delta
       /\ increases[k].delta = increases[l].delta =>
            placeIn(encounter, increases[k].id) < placeIn(encounter, increases[l].id)

\* The sketches of both snapshots with more views in the latest one.
risenInBoth(previous, latest) ==
  {id \in idsIn(latest) \cap idsIn(previous) : viewsIn(latest, id) > viewsIn(previous, id)}

\* The sketches of the latest snapshot with more views than in the previous
\* one, a sketch the previous one does not record counting as 0 there.
risenOverZero(previous, latest) ==
  {id \in idsIn(latest) : viewsIn(latest, id) > viewsIn(previous, id)}

\* C17 as stated: the increases list exactly the sketches present in both
\* snapshots whose views are greater in the latest one, with delta
\* latest.views - previous.views, by descending delta, ties in encounter
\* order.
C17_IncreasesOfSketchesInBoth ==
  /\ (popupDrew /\ Len(loadSnapshotHistory) >= 2) =>
       LET history == loadSnapshotHistory
           previous == history[Len(history) - 1]
           latest == history[Len(history)]
       IN  increasesAre(callRet.stats.increases, risenInBoth(previous, latest),
                        previous, latest, sketchesOf(latest))
  /\ (optionsDrew /\ Len(loadHistory) >= 2) =>
       LET history == callRet.state.normalizedHistory
           previous == history[Len(history) - 1]
           latest == history[Len(history)]
       IN  increasesAre(callRet.view.stats.increases, risenInBoth(previous, latest),
                        previous, latest, callRet.state.series)

\* C17 amended: the increases list exactly the sketches of the latest
\* snapshot whose views are greater than in the previous one, where a
\* sketch absent from the previous snapshot counts as 0 views, with that
\* difference as delta, by descending delta, ties in encounter order.
C17_IncreasesOverZeroBaseline ==
  /\ (popupDrew /\ Len(loadSnapshotHistory) >= 2) =>
       LET history == loadSnapshotHistory
           previous == history[Len(history) - 1]
           latest == history[Len(history)]
       IN  increasesAre(callRet.stats.increases, risenOverZero(previous, latest),
                        previous, latest, sketchesOf(latest))
  /\ (optionsDrew /\ Len(loadHistory) >= 2) =>
       LET history == callRet.state.normalizedHistory
           previous == history[Len(history) - 1]
           latest == history[Len(history)]
       IN  increasesAre(callRet.view.stats.increases, risenOverZero(previous, latest),
                        previous, latest, callRet.state.series)

\* C17 witness: the popup lists two increases, the greater one first though
\* its sketch comes second in the latest snapshot and is new in it.
C17_Witness ==
  /\ popupDrew
  /\ Len(loadSnapshotHistory) >= 2
  /\ Len(callRet.stats.increases) = 2
  /\ callRet.stats.increases[1].delta > callRet.stats.increases[2].delta
  /\ sketchesOf(loadSnapshotHistory[Len(loadSnapshotHistory)])[2].id = callRet.stats.increases[1].id
  /\ callRet.stats.increases[1].id
       \notin idsIn(loadSnapshotHistory[Len(loadSnapshotHistory) - 1])

\* The sketches and deltas of a list of increases.
deltas(increases) == {<<increases[k].id, increases[k].delta>> : k \in DOMAIN increases}

C20_UnparsableAsEpoch0 ==
  /\ built =>
       \A i, j \in DOMAIN callRet.state.normalizedHistory : i < j =>
         snapshotTime(callRet.state.normalizedHistory[i])
           <= snapshotTime(callRet.state.normalizedHistory[j])
  /\ (callRet.t = "appendSnapshot"
        /\ duplicateIndex(callArg.history, callArg.snapshot) = 0) =>
       \A i, j \in DOMAIN callRet.value : i < j =>
         snapshotTime(callRet.value[i]) <= snapshotTime(callRet.value[j])

----------------------------------------------------------------------------
(* Properties of the series builder on stored arrays of any content *)

\* No two snapshots of a history carry the same fetched_at.
noSharedFetchedAt(history) ==
  \A i, j \in DOMAIN history :
    (/\ i # j
     /\ "fetched_at" \in DOMAIN history[i]
     /\ "fetched_at" \in DOMAIN history[j])
      => history[i].fetched_at # history[j].fetched_at

\* Every element of a history is a snapshot that carries a fetched_at.
allStamped(history) ==
  \A i \in DOMAIN history : "fetched_at" \in DOMAIN history[i]

\* The labels are pairwise distinct, and point i of every series holds the
\* views snapshot i records for the sketch.
labelsAlign(st) ==
  /\ \A i, j \in DOMAIN st.timeLabels : i # j => st.timeLabels[i] # st.timeLabels[j]
  /\ \A k \in DOMAIN st.series : \A i \in DOMAIN st.series[k].points :
       st.series[k].points[i].views = viewsIn(st.normalizedHistory[i], st.series[k].id)

\* C21 as stated: for every history in which no two snapshots share a
\* fetched_at, the timeLabels buildState computes are pairwise distinct and
\* no point shows the views of another snapshot.
C21_LabelsDistinct ==
  (built /\ noSharedFetchedAt(loadHistory)) => labelsAlign(callRet.state)

\* C21 amended: the same for every history in which every snapshot carries
\* a fetched_at and no two share it.
C21_LabelsDistinctWhenStamped ==
  (built /\ allStamped(loadHistory) /\ noSharedFetchedAt(loadHistory))
    => labelsAlign(callRet.state)

\* C21 witness: a history of snapshots with fetched_at, two of them of the
\* same calendar day, built into a series whose points differ.
C21_Witness ==
  /\ built
  /\ allStamped(loadHistory)
  /\ noSharedFetchedAt(loadHistory)
  /\ \E i, j \in DOMAIN loadHistory :
       i # j /\ loadHistory[i].date = loadHistory[j].date
  /\ \E k \in DOMAIN callRet.state.series :
       \E i, j \in DOMAIN callRet.state.series[k].points :
         callRet.state.series[k].points[i].views # callRet.state.series[k].points[j].views

\* The records of a sketch in a snapshot.
recordsOf(snapshot, id) ==
  {sketchesOf(snapshot)[j] : j \in {n \in DOMAIN sketchesOf(snapshot) : sketchesOf(snapshot)[n].id = id}}

\* The positions of the snapshots in which a sketch appears with a title.
titled(history, id) ==
  {i \in DOMAIN history : \E r \in recordsOf(history[i], id) : r.title # ""}

\* C22: the title and the url of every series are those of the latest
\* snapshot, in history order, in which the sketch appears with a non-empty
\* title (respectively url).
C22_LatestTitleAndUrl ==
  (built /\ ~buildStateThrows(loadHistory)) =>
    \A k \in DOMAIN callRet.state.series :
      LET line == callRet.state.series[k]
          history == callRet.state.normalizedHistory
          seen == {i \in DOMAIN history : recordsOf(history[i], line.id) # {}}
      IN  /\ titled(history, line.id) # {} =>
                \E r \in recordsOf(history[Max(titled(history, line.id))], line.id) :
                  r.title = line.title
          /\ \E r \in recordsOf(history[Max(seen)], line.id) : r.url = line.url

----------------------------------------------------------------------------
(* Properties of the Node collector *)

\* A run of main ends in this step with the data file saved.
saved == node.pc = "parsing" /\ node'.pc = "done"

\* C23: a run of main on a data file that has an entry for today's date
\* replaces that entry at its index and leaves the number of entries
\* unchanged, otherwise it appends one entry at the end; every other entry
\* stays as it was, nothing else writes the file, and the file never holds
\* two entries of one date.
C23_ReplaceTodayOrAppend ==
  [][LET old == loadData(dataFile)
         new == loadData(dataFile')
         today == {i \in DOMAIN old : old[i].date = node.date}
     IN  /\ ~saved => dataFile' = dataFile
         /\ saved =>
              /\ new # <<>>
              /\ \A i, j \in DOMAIN new : i # j => new[i].date # new[j].date
              /\ IF today # {}
                 THEN /\ Len(new) = Len(old)
                      /\ \A i \in DOMAIN old :
                           IF i \in today
                           THEN new[i].date = node.date /\ new[i].fetched_at = toISOString(clock)
                           ELSE new[i] = old[i]
                 ELSE /\ Len(new) = Len(old) + 1
                      /\ new[Len(new)].date = node.date
                      /\ new[Len(new)].fetched_at = toISOString(clock)
                      /\ \A i \in DOMAIN old : new[i] = old[i]]_vars

\* C23 witness: a run found the entry of its date at index 2, behind the
\* entry of an earlier date, and replaced it with a later snapshot.
C23_Witness ==
  /\ node.pc = "done"
  /\ node.existingIndex = 2
  /\ Len(loadData(dataFile)) = 2
  /\ loadData(dataFile)[1].date # node.date
  /\ loadData(dataFile)[2].date = node.date
  /\ loadData(dataFile)[2].sketches # <<>>

----------------------------------------------------------------------------
(* Properties of the formatters *)

\* k is n / d rounded to the nearest integer, a half rounded up.
nearest(k, n, d) == 2 * d * k - d <= 2 * n /\ 2 * n < 2 * d * k + d

\* C24: formatBadgeNumber gives "0" for 0, the exact integer for 1 to 999,
\* round(n/1000) followed by K for 1000 <= n < 1000000, and
\* round(n/1000000) followed by M from 1000000 on.
C24_BadgeNumber ==
  callRet.t = "formatBadgeNumber" =>
    LET n == callArg.value
        text == callRet.value
    IN  /\ n = 0 => text = [digits |-> 0, suffix |-> ""]
        /\ (1 <= n /\ n <= 999) => text = [digits |-> n, suffix |-> ""]
        /\ (1000 <= n /\ n < 1000000) => text.suffix = "K" /\ nearest(text.digits, n, 1000)
        /\ n >= 1000000 => text.suffix = "M" /\ nearest(text.digits, n, 1000000)

\* C24 witness: 1500000 views are shown as 2M.
C24_Witness ==
  /\ callRet.t = "formatBadgeNumber"
  /\ callArg.value = 1500000
  /\ callRet.value = [digits |-> 2, suffix |-> "M"]

\* C25: with elapsed = now - timestamp, formatRelativeTime gives "just now"
\* only for a negative elapsed, max(1, whole minutes) "min ago" under an
\* hour, the whole hours "h ago" under a day, the whole days "d ago" from
\* then on; the popup and the options page give the same.
C25_RelativeTime ==
  (callRet.t = "formatRelativeTime" /\ IsParsable(callArg.value)) =>
    LET elapsed == callArg.now - DateParse(callArg.value)
        minute == 60000
        hour == 3600000
        day == 86400000
        text == callRet.popup
        whole(n, unit) == n * unit <= elapsed /\ elapsed < (n + 1) * unit
    IN  /\ callRet.options = text
        /\ text = [text |-> "just now"] <=> elapsed < 0
        /\ (0 <= elapsed /\ elapsed < minute) => text = [n |-> 1, text |-> " min ago"]
        /\ (minute <= elapsed /\ elapsed < hour) =>
             text.text = " min ago" /\ whole(text.n, minute)
        /\ (hour <= elapsed /\ elapsed < day) => text.text = "h ago" /\ whole(text.n, hour)
        /\ day <= elapsed => text.text = "d ago" /\ whole(text.n, day)

\* C25 witness: one millisecond after the capture both pages say "1 min ago".
C25_Witness ==
  /\ callRet.t = "formatRelativeTime"
  /\ IsParsable(callArg.value)
  /\ callArg.now - DateParse(callArg.value) = 1
  /\ callRet.popup = [n |-> 1, text |-> " min ago"]
  /\ callRet.options = callRet.popup

\* The characters of a string that are no whitespace.
inked(chars) == {i \in DOMAIN chars : chars[i] \notin {" ", "\t"}}

\* C26: every request fetchAllSketches sends carries the User-Agent, Accept
\* and Referer headers, and a Cookie header exactly when
\* OPENPROCESSING_COOKIE is set to a non-blank value, the Cookie being that
\* value without the whitespace around it.
C26_RequestHeaders ==
  node.pc # "idle" =>
    LET headers == node.request.headers
        set == node.env # Undefined
    IN  /\ {"User-Agent", "Accept", "Referer"} \subseteq DOMAIN headers
        /\ \A name \in {"User-Agent", "Accept", "Referer"} : headers[name] # ""
        /\ "Cookie" \in DOMAIN headers <=> (set /\ inked(node.env.chars) # {})
        /\ "Cookie" \in DOMAIN headers =>
             headers["Cookie"].chars =
               SubSeq(node.env.chars, Min(inked(node.env.chars)), Max(inked(node.env.chars)))

\* C26 witness: the request of the second page carries the cookie that was
\* set with whitespace around it, trimmed.
C26_Witness ==
  /\ node.pc = "fetching"
  /\ node.request.url.offset = PAGE_LIMIT
  /\ node.env = Str(<<" ", "c", "=", "1", ";", " ", "d", "\t">>)
  /\ node.request.headers["Cookie"] = Str(<<"c", "=", "1", ";", " ", "d">>)

\* The response is a Cloudflare block: status 403, a server header that
\* names Cloudflare in any case, and a block-page body.
blocked(response) ==
  /\ response.status = 403
  /\ response.server # Null
  /\ \E p \in response.server.phrases : p.words = "cloudflare"
  /\ \E p \in response.body :
       p.words \in {"sorry, you have been blocked", "attention required"}

\* C27: a page request answered 403 with a Cloudflare server header and a
\* block-page body makes fetchAllSketches reject with the Cloudflare hint
\* that names OPENPROCESSING_COOKIE, any other response that is not ok with
\* the plain HTTP status error; no list is returned and the data file is
\* not written.
C27_FetchFailure ==
  [][((node.pc = "reading" \/ node'.pc = "failed") /\ node' # node) =>
       /\ node.pc = "reading"
       /\ node'.pc = "failed"
       /\ ~node.response.ok
       /\ node'.error.t = "Error"
       /\ node'.error.status = node.response.status
       /\ node'.error.url = node.request.url
       /\ IF blocked(node.response)
          THEN /\ "hint" \in DOMAIN node'.error
               /\ node'.error.hint.says = "OpenProcessing is returning a Cloudflare block page."
               /\ node'.error.hint.names = "OPENPROCESSING_COOKIE"
          ELSE "hint" \notin DOMAIN node'.error
       /\ node'.sketches = <<>>
       /\ dataFile' = dataFile]_vars

\* C27 witness: the second page is blocked after a full first page; the run
\* has failed with the hint and there is no data file.
C27_Witness ==
  /\ node.pc = "failed"
  /\ node.offset = PAGE_LIMIT
  /\ "hint" \in DOMAIN node.error
  /\ node.sketches = <<>>
  /\ dataFile = NoFile

\* The page just parsed ends the loop: no array, empty, or short.
lastPage(page) ==
  \/ ~IsArray(page)
  \/ Len(page.items) = 0
  \/ Len(page.items) < 10

\* fetchAllSketches has a page in hand that ends the loop.
stopping == node.pc = "parsing" /\ lastPage(node.response.json)

\* fetchAllSketches has returned its list.
returned == node.pc = "done"

\* C29: fetchAllSketches requests the pages one at a time at offsets 0, 10,
\* 20, ... in order, stops at the first page that is no array, is empty or
\* has fewer than 10 items, and returns the received pages concatenated in
\* request order; it returns if and only if such a page arrives.
C29_Pagination ==
  /\ [][/\ (node.pc \in {"idle", "done", "failed"} /\ node' # node) =>
             node'.request.url.offset = 0 /\ node'.request.url.limit = 10
        /\ (node.pc \notin {"idle", "done", "failed"} /\ node'.request # node.request) =>
             /\ node.pc = "parsing"
             /\ ~lastPage(node.response.json)
             /\ node'.pc = "fetching"
             /\ node'.request.url.offset = node.request.url.offset + 10
        /\ (node.pc = "parsing" /\ node' # node) =>
             /\ lastPage(node.response.json) <=> returned'
             /\ ~lastPage(node.response.json) => node'.request # node.request
             /\ node'.sketches =
                  node.sketches \o (IF IsArray(node.response.json)
                                    THEN node.response.json.items ELSE <<>>)
        /\ returned' =>
             /\ lastPage(node'.response.json)
             /\ \A k \in DOMAIN node'.sketches : node'.sketches[k].visualID = Num(k)
             /\ Len(node'.sketches) =
                  node'.request.url.offset
                    + (IF IsArray(node'.response.json)
                       THEN Len(node'.response.json.items) ELSE 0)]_vars
  /\ stopping ~> returned

\* C29 witness: the list of a full page and a short page, returned after
\* the request at offset 10.
C29_Witness ==
  /\ returned
  /\ node.request.url.offset = 10
  /\ Len(node.sketches) = 19
  /\ node.sketches[19].visualID = Num(19)

----------------------------------------------------------------------------
(* Properties of the sketch filter *)

\* The values of the options of the sketch filter for a list of series.
filterValues(series) == {AllOption} \cup {IdOption(series[i].id) : i \in DOMAIN series}

\* buildState runs in this step of the options page.
rebuilt == optionsPage.pc \in {"init", "clearing"} /\ optionsPage'.pc = "ready"

\* C30: after every buildState and every filter change state.selectedSketchId
\* is "all" or the id of a series in state.series; a rebuild keeps a
\* selection whose sketch is still among the series and turns any other
\* into "all".
C30_SelectionAmongSeries ==
  /\ [](state.selectedSketchId \in filterValues(state.series))
  /\ [][rebuilt =>
          state'.selectedSketchId =
            IF state.selectedSketchId \in filterValues(state'.series)
            THEN state.selectedSketchId ELSE AllOption]_vars

\* C30 witness: with two series shown, the filter was changed to the second
\* one, and the reset of the store has been confirmed.
C30_Witness ==
  /\ optionsPage.pc = "clearing"
  /\ Len(state.series) = 2
  /\ state.selectedSketchId = IdOption(state.series[2].id)

----------------------------------------------------------------------------
(* Properties of the operations on stored arrays of any content *)

\* C28: on every stored array, also one with elements that are null or
\* lack sketches, fetched_at or date, appendSnapshot, drawPopupStats,
\* buildState and drawStats complete with a value; none raises an error
\* nobody handles.
C28_NoOperationFatal ==
  callRet # Empty => "error" \notin DOMAIN callRet

====
